---------------------------- MODULE Spec2Model ----------------------------
(***************************************************************************)
(* mindraw: a command bridge between an MCP client (render/server.py) and  *)
(* a Blender addon (render/addon.py).                                      *)
(*                                                                         *)
(* Two state machines share this module:                                   *)
(*   ClientSpec  the Connection Manager of render/server.py: the module    *)
(*               level connect, the caller threads of                      *)
(*               _send_blender_command, socket_lock, and an abstract peer  *)
(*               (the addon seen from the socket).                         *)
(*   HostSpec    the Command Server of render/addon.py: register,          *)
(*               unregister, socket_server_thread, handle_client and the   *)
(*               handlers of COMMAND_MAP, with an abstract peer that       *)
(*               writes chunks to the accepted connection.                 *)
(* FairClientSpec is ClientSpec with weak fairness on every step a thread  *)
(* takes inside a call (the OS schedules runnable threads; every blocking  *)
(* socket call of the client has a 10 s timeout).                          *)
(***************************************************************************)
EXTENDS Integers, Sequences, FiniteSets, TLC

(***************************************************************************)
(* Bounds of the model.                                                    *)
(***************************************************************************)
NumCallers == 2

MaxCalls == 2

MaxChunks == 2

MaxBacklog == 1

MaxPoints == 2

MaxSegments == 2

(***************************************************************************)
(* Program constants of render/server.py and render/addon.py.              *)
(***************************************************************************)
max_retries == 5

default_segments == 64

\* s.settimeout(1.0) before accept, in seconds
accept_timeout == 1

\* server_thread.join(timeout=2.0), in seconds
join_timeout == 2

VARIABLES
    \* ---- render/server.py ----
    blender_socket,     \* global: NoSocket (None) or the handle of a socket
    socket_connected,   \* global flag
    socket_lock,        \* threading.Lock(): Free or the thread holding it
    pc,                 \* position of every client thread
    attempt,            \* connect attempts made by the thread in this call
    exc,                \* exception in flight in the thread ("none" if none)
    result,             \* value _send_blender_command hands to its caller
    cur,                \* number of the call the thread is serving
    calls,              \* calls started so far
    socks,              \* client sockets currently open
    serverUp,           \* the addon is listening on the port
    link,               \* connection of blender_socket: none, up, down
    reqs,               \* requests received by the peer, not yet answered
    resps,              \* responses written by the peer, not yet read
    failedOn,           \* a call already reported an I/O failure on blender_socket
    mustReconnect,      \* failedOn /\ link = "down" when the thread ran ensure_connection
    \* ---- render/addon.py ----
    is_running,         \* global flag
    registered,         \* register() ran and unregister() has not finished since
    hpc,                \* position of the host thread inside unregister
    spc,                \* position of the accept thread (server_thread)
    listening,          \* the listening socket s is bound and open
    backlog,            \* connections the kernel queued for accept
    conn,               \* the accepted connection: none, open, closed
    peer,               \* the peer of conn: none, connected, fin, rst
    inbox,              \* chunks the peer wrote that recv has not returned yet
    nsent,              \* chunks the peer wrote in this session
    chunk,              \* data: the chunk the last recv returned
    response,           \* local variable response of handle_client
    pending,            \* exception propagating out of the try block
    invoked,            \* handler called for chunk ("none" if none)
    effects,            \* what the handler did to Blender for chunk
    outcome,            \* how the handler call for chunk ended (NoOutcome if none)
    wrote,              \* sendall returned and the thread took no step since
    prevKind,           \* kind of the chunk handled before chunk in this session
    nread,              \* non-empty chunks read in this session
    nwritten,           \* responses written in this session
    bound,              \* s.bind / s.listen of the accept thread: no, ok, failed
    elapsed,            \* seconds unregister has waited in join so far
    acc_wait,           \* seconds the pending accept has waited (during a join)
    warned,             \* the last unregister printed its warning
    stop_in_accept,     \* the last unregister found the thread waiting in accept
    server_thread,      \* global: none, or which thread it refers to: accept, other
    opc,                \* position of a thread started beside a live one: none, bind
    sys_stdout          \* sys.stdout of the Blender process: original, StringIO

clientVars == <<blender_socket, socket_connected, socket_lock, pc, attempt, exc,
                result, cur, calls, socks, serverUp, link, reqs, resps,
                failedOn, mustReconnect>>

hostVars == <<is_running, registered, hpc, spc, listening, backlog, conn, peer,
              inbox, nsent, chunk, response, pending, invoked, effects, outcome, wrote,
              prevKind, nread, nwritten, bound, elapsed, acc_wait, warned,
              stop_in_accept, server_thread, opc, sys_stdout>>

vars == <<clientVars, hostVars>>

(***************************************************************************)
(* Threads of the client process: Main runs the module body (the connect   *)
(* at import, mcp.run(), the disconnect in the finally clause); Callers    *)
(* run the tool functions, i.e. _send_blender_command.                     *)
(***************************************************************************)
Main == 0

Callers == 1..NumCallers

Procs == {Main} \cup Callers

NoSocket == 0

Free == -1

SocketIds == 1..(MaxCalls + 3)

NoResult == [status |-> "none", error_message |-> "", re |-> 0, output |-> ""]

(***************************************************************************)
(* Envelopes synthesized by _send_blender_command.                         *)
(***************************************************************************)
ErrorEnvelope(msg) == [status |-> "error", error_message |-> msg, re |-> 0, output |-> ""]

ConnFailedEnvelope == ErrorEnvelope("Blender connection failed.")

NoSocketEnvelope == ErrorEnvelope("No active socket connection.")

EmptyEnvelope == ErrorEnvelope("Received empty response from Blender.")

TimeoutEnvelope == ErrorEnvelope("Timeout: Blender addon did not respond.")

DecodeEnvelope == ErrorEnvelope("Failed to decode JSON response from Blender.")

OtherEnvelope == ErrorEnvelope("str(e)")

(***************************************************************************)
(* json.loads of a response chunk of the peer: the mapping the addon       *)
(* wrote, tagged with the call it answers.  "braces" is the chunk "{}",    *)
(* which the addon writes when the handler ended with a BaseException: a   *)
(* mapping without status.  "scene" is the answer to get_scene_info, the   *)
(* other command this client sends on the socket (line 170): success with  *)
(* data that has no "output".  An absent field reads as "".                *)
(***************************************************************************)
PeerEnvelope(r) ==
    [status |-> CASE r.body = "braces" -> ""
                  [] r.body = "scene"  -> "success"
                  [] OTHER             -> r.body,
     error_message |-> IF r.body = "error" THEN "handler fault" ELSE "",
     re |-> r.re,
     output |-> IF r.body = "success" THEN "printed text" ELSE ""]

IOFailures == {EmptyEnvelope, TimeoutEnvelope, DecodeEnvelope, OtherEnvelope}

(***************************************************************************)
(* Faulty CanAcquire:    the critical sections are entered without waiting *)
(* for the lock.                                                           *)
(***************************************************************************)
CanAcquireUnguarded(t) == TRUE

(***************************************************************************)
(* with socket_lock: a threading.Lock is not reentrant, so the acquire     *)
(* blocks while any thread, the caller itself included, holds the lock.    *)
(***************************************************************************)
CanAcquire(t) == socket_lock = Free

(***************************************************************************)
(* Faulty mark_failed: the assignment reaches the module global.           *)
(***************************************************************************)
mark_failed_global(flag) == FALSE

(***************************************************************************)
(* "socket_connected = False" in the except clauses of                     *)
(* _send_blender_command: the function has no "global socket_connected"    *)
(* statement, so the assignment binds a local name and the module global   *)
(* keeps its value.                                                        *)
(***************************************************************************)
mark_failed(flag) == flag

(***************************************************************************)
(* The except clauses of _send_blender_command, by exception class.        *)
(***************************************************************************)
except_clause(kind) ==
    CASE kind = "timeout" -> TimeoutEnvelope
      [] kind = "decode"  -> DecodeEnvelope
      [] OTHER            -> OtherEnvelope

NewSocket == CHOOSE s \in SocketIds : s \notin socks

(***************************************************************************)
(* Faulty after_failure: the loop has no bound.                            *)
(***************************************************************************)
after_failure_unbounded(made) == "conn_sleep"

(***************************************************************************)
(* connect_to_blender after the failure of attempt number "made" (lines    *)
(* 24, 47-49): sleep and try again while attempts are left ("attempt <     *)
(* max_retries - 1" with attempt counted from 0), else leave the loop.     *)
(***************************************************************************)
after_failure(made) == IF made < max_retries THEN "conn_sleep" ELSE "conn_failed"

(***************************************************************************)
(* connect_to_blender, one iteration of "for attempt in range(max_retries)"*)
(* (lines 24-49): a socket is created and bound to the global before the   *)
(* connect; a failed connect closes it and clears the global.  The handle  *)
(* the global held before line 30 is overwritten without being closed.     *)
(***************************************************************************)
connect_attempt(t) ==
    /\ pc[t] = "conn_try"
    /\ attempt' = [attempt EXCEPT ![t] = @ + 1]
    /\ reqs' = <<>>
    /\ resps' = <<>>
    /\ failedOn' = FALSE
    /\ IF serverUp
       THEN /\ blender_socket' = NewSocket
            /\ socks' = socks \cup {NewSocket}
            /\ link' = "up"
            /\ pc' = [pc EXCEPT ![t] = "conn_lock"]
       ELSE /\ blender_socket' = NoSocket
            /\ socks' = socks
            /\ link' = "none"
            /\ pc' = [pc EXCEPT ![t] = after_failure(attempt[t] + 1)]
    /\ UNCHANGED <<socket_connected, socket_lock, exc, result, cur, calls,
                   serverUp, mustReconnect>>
    /\ UNCHANGED hostVars

(***************************************************************************)
(* time.sleep(retry_delay) between two attempts (lines 47-49).             *)
(***************************************************************************)
connect_sleep(t) ==
    /\ pc[t] = "conn_sleep"
    /\ pc' = [pc EXCEPT ![t] = "conn_try"]
    /\ UNCHANGED <<blender_socket, socket_connected, socket_lock, attempt, exc,
                   result, cur, calls, socks, serverUp, link, reqs, resps,
                   failedOn, mustReconnect>>
    /\ UNCHANGED hostVars

(***************************************************************************)
(* connect_to_blender after a successful connect (lines 34-38):            *)
(* "with socket_lock: socket_connected = True", then return True.  Called  *)
(* from the module body it returns to line 89; called from                 *)
(* ensure_connection it returns through the caller's own "with             *)
(* socket_lock" (line 78), which releases the lock.                        *)
(***************************************************************************)
connect_mark(t) ==
    /\ pc[t] = "conn_lock"
    /\ CanAcquire(t)
    /\ socket_connected' = TRUE
    /\ socket_lock' = Free
    /\ pc' = [pc EXCEPT ![t] = IF t = Main THEN "run" ELSE "snd_lock"]
    /\ UNCHANGED <<blender_socket, attempt, exc, result, cur, calls, socks,
                   serverUp, link, reqs, resps, failedOn, mustReconnect>>
    /\ UNCHANGED hostVars

(***************************************************************************)
(* connect_to_blender after max_retries failed attempts (lines 51-52):     *)
(* return False.  In ensure_connection the False leaves "with socket_lock" *)
(* and _send_blender_command returns the connection-failure envelope       *)
(* (lines 103-104).                                                        *)
(***************************************************************************)
connect_failed(t) ==
    /\ pc[t] = "conn_failed"
    /\ IF t = Main
       THEN /\ pc' = [pc EXCEPT ![t] = "run"]
            /\ UNCHANGED <<socket_lock, result>>
       ELSE /\ socket_lock' = Free
            /\ result' = [result EXCEPT ![t] = ConnFailedEnvelope]
            /\ pc' = [pc EXCEPT ![t] = "ret"]
    /\ UNCHANGED <<blender_socket, socket_connected, attempt, exc, cur, calls,
                   socks, serverUp, link, reqs, resps, failedOn, mustReconnect>>
    /\ UNCHANGED hostVars

(***************************************************************************)
(* A tool function calls _send_blender_command (line 158, 170).            *)
(***************************************************************************)
call(t) ==
    /\ pc[Main] = "run"
    /\ pc[t] = "idle"
    /\ calls < MaxCalls
    /\ calls' = calls + 1
    /\ cur' = [cur EXCEPT ![t] = calls + 1]
    /\ attempt' = [attempt EXCEPT ![t] = 0]
    /\ pc' = [pc EXCEPT ![t] = "ens_lock"]
    /\ UNCHANGED <<blender_socket, socket_connected, socket_lock, exc, result,
                   socks, serverUp, link, reqs, resps, failedOn, mustReconnect>>
    /\ UNCHANGED hostVars

(***************************************************************************)
(* ensure_connection, "with socket_lock:" (line 78).                       *)
(***************************************************************************)
ensure_acquire(t) ==
    /\ pc[t] = "ens_lock"
    /\ CanAcquire(t)
    /\ socket_lock' = t
    /\ pc' = [pc EXCEPT ![t] = "ens_check"]
    /\ UNCHANGED <<blender_socket, socket_connected, attempt, exc, result, cur,
                   calls, socks, serverUp, link, reqs, resps, failedOn,
                   mustReconnect>>
    /\ UNCHANGED hostVars

(***************************************************************************)
(* ensure_connection, lines 79-82: connect with the lock still held, or    *)
(* leave the with block and return True.                                   *)
(***************************************************************************)
ensure_connection(t) ==
    /\ pc[t] = "ens_check"
    /\ mustReconnect' = [mustReconnect EXCEPT ![t] = failedOn /\ link = "down"]
    /\ IF ~socket_connected \/ blender_socket = NoSocket
       THEN /\ pc' = [pc EXCEPT ![t] = "conn_try"]
            /\ UNCHANGED socket_lock
       ELSE /\ socket_lock' = Free
            /\ pc' = [pc EXCEPT ![t] = "snd_lock"]
    /\ UNCHANGED <<blender_socket, socket_connected, attempt, exc, result, cur,
                   calls, socks, serverUp, link, reqs, resps, failedOn>>
    /\ UNCHANGED hostVars

(***************************************************************************)
(* _send_blender_command, lines 107-112: take the lock; without a socket   *)
(* return the no-socket envelope (the return leaves the with block).       *)
(***************************************************************************)
send_acquire(t) ==
    /\ pc[t] = "snd_lock"
    /\ CanAcquire(t)
    /\ IF blender_socket = NoSocket
       THEN /\ result' = [result EXCEPT ![t] = NoSocketEnvelope]
            /\ pc' = [pc EXCEPT ![t] = "ret"]
            /\ socket_lock' = Free
       ELSE /\ socket_lock' = t
            /\ pc' = [pc EXCEPT ![t] = "send"]
            /\ UNCHANGED result
    /\ UNCHANGED <<blender_socket, socket_connected, attempt, exc, cur, calls,
                   socks, serverUp, link, reqs, resps, failedOn, mustReconnect>>
    /\ UNCHANGED hostVars

(***************************************************************************)
(* What sendall can do (line 116): on a live connection the request        *)
(* reaches the peer; after the peer died the bytes are lost or the call    *)
(* raises BrokenPipeError / ConnectionResetError.                          *)
(***************************************************************************)
SendOutcomes == IF link = "up" THEN {"sent"} ELSE {"lost", "reset"}

sendall(t) ==
    /\ pc[t] = "send"
    /\ \E o \in SendOutcomes :
         /\ reqs' = IF o = "sent" THEN Append(reqs, cur[t]) ELSE reqs
         /\ IF o = "reset"
            THEN /\ socket_lock' = Free
                 /\ exc' = [exc EXCEPT ![t] = "other"]
                 /\ pc' = [pc EXCEPT ![t] = "exc"]
            ELSE /\ pc' = [pc EXCEPT ![t] = "recv"]
                 /\ UNCHANGED <<socket_lock, exc>>
    /\ UNCHANGED <<blender_socket, socket_connected, attempt, result, cur,
                   calls, socks, serverUp, link, resps, failedOn, mustReconnect>>
    /\ UNCHANGED hostVars

(***************************************************************************)
(* What recv(4096) can do (line 119, timeout 10 s set at line 31): return  *)
(* the next chunk the peer wrote; with nothing to read, time out on a live *)
(* connection, and return b"" or raise ConnectionResetError on a dead one. *)
(***************************************************************************)
RecvOutcomes ==
    IF resps # <<>> THEN {"data"}
    ELSE IF link = "up" THEN {"timeout"} ELSE {"empty", "reset"}

(***************************************************************************)
(* Lines 119-125 and the JSONDecodeError clause (135-139): every way out   *)
(* of the with block releases the lock.                                    *)
(***************************************************************************)
recv(t) ==
    /\ pc[t] = "recv"
    /\ socket_lock' = Free
    /\ \E o \in RecvOutcomes :
         /\ resps' = IF o = "data" THEN Tail(resps) ELSE resps
         /\ CASE o = "data" /\ Head(resps).body # "garbage" ->
                   /\ result' = [result EXCEPT ![t] = PeerEnvelope(Head(resps))]
                   /\ pc' = [pc EXCEPT ![t] = "ret"]
                   /\ UNCHANGED <<exc, failedOn>>
              [] o = "data" /\ Head(resps).body = "garbage" ->
                   /\ result' = [result EXCEPT ![t] = except_clause("decode")]
                   /\ pc' = [pc EXCEPT ![t] = "ret"]
                   /\ failedOn' = TRUE
                   /\ UNCHANGED exc
              [] o = "empty" ->
                   /\ result' = [result EXCEPT ![t] = EmptyEnvelope]
                   /\ pc' = [pc EXCEPT ![t] = "ret"]
                   /\ failedOn' = TRUE
                   /\ UNCHANGED exc
              [] o = "timeout" ->
                   /\ exc' = [exc EXCEPT ![t] = "timeout"]
                   /\ pc' = [pc EXCEPT ![t] = "exc"]
                   /\ UNCHANGED <<result, failedOn>>
              [] o = "reset" ->
                   /\ exc' = [exc EXCEPT ![t] = "other"]
                   /\ pc' = [pc EXCEPT ![t] = "exc"]
                   /\ UNCHANGED <<result, failedOn>>
    /\ UNCHANGED <<blender_socket, socket_connected, attempt, cur, calls, socks,
                   serverUp, link, reqs, mustReconnect>>
    /\ UNCHANGED hostVars

(***************************************************************************)
(* The socket.timeout and Exception clauses (lines 127-134, 140-144):      *)
(* "with socket_lock: socket_connected = False", then return the envelope. *)
(***************************************************************************)
except_mark(t) ==
    /\ pc[t] = "exc"
    /\ CanAcquire(t)
    /\ socket_connected' = mark_failed(socket_connected)
    /\ result' = [result EXCEPT ![t] = except_clause(exc[t])]
    /\ exc' = [exc EXCEPT ![t] = "none"]
    /\ failedOn' = TRUE
    /\ pc' = [pc EXCEPT ![t] = "ret"]
    /\ UNCHANGED <<blender_socket, socket_lock, attempt, cur, calls, socks,
                   serverUp, link, reqs, resps, mustReconnect>>
    /\ UNCHANGED hostVars

(***************************************************************************)
(* Faulty execute_blender_command: the error message without its prefix.   *)
(***************************************************************************)
execute_blender_command_unformatted(resp) ==
    IF resp.status = "success"
    THEN IF resp.output = "" THEN "SUCCESS: No output returned." ELSE resp.output
    ELSE IF resp.error_message = "" THEN "Unknown error."
                                       ELSE resp.error_message

(***************************************************************************)
(* execute_blender_command, lines 160-164: the string the tool returns for *)
(* the mapping _send_blender_command handed back.                          *)
(***************************************************************************)
execute_blender_command(resp) ==
    IF resp.status = "success"
    THEN IF resp.output = "" THEN "SUCCESS: No output returned." ELSE resp.output
    ELSE "ERROR: " \o (IF resp.error_message = "" THEN "Unknown error."
                                                     ELSE resp.error_message)

\* The value a tool function handed to the MCP framework.
ToolResult(text, re) == [status |-> "returned", error_message |-> "", re |-> re,
                         output |-> text]

(***************************************************************************)
(* _send_blender_command returns to the tool function, which turns the     *)
(* mapping into its string (lines 158-164).                                *)
(***************************************************************************)
return(t) ==
    /\ pc[t] = "ret"
    /\ pc' = [pc EXCEPT ![t] = "done"]
    /\ result' = [result EXCEPT ![t] =
                      ToolResult(execute_blender_command(result[t]), result[t].re)]
    /\ UNCHANGED <<blender_socket, socket_connected, socket_lock, exc, calls,
                   socks, serverUp, link, reqs, resps, failedOn, attempt, cur,
                   mustReconnect>>
    /\ UNCHANGED hostVars

(***************************************************************************)
(* The tool function returns its string to the MCP framework (lines 161,   *)
(* 164); the thread is free for the next call.                             *)
(***************************************************************************)
tool_return(t) ==
    /\ pc[t] = "done"
    /\ pc' = [pc EXCEPT ![t] = "idle"]
    /\ result' = [result EXCEPT ![t] = NoResult]
    /\ cur' = [cur EXCEPT ![t] = 0]
    /\ attempt' = [attempt EXCEPT ![t] = 0]
    /\ mustReconnect' = [mustReconnect EXCEPT ![t] = FALSE]
    /\ UNCHANGED <<blender_socket, socket_connected, socket_lock, exc, calls,
                   socks, serverUp, link, reqs, resps, failedOn>>
    /\ UNCHANGED hostVars

(***************************************************************************)
(* get_connection_status, lines 184-187: the text for the state it reads   *)
(* under the lock.                                                         *)
(***************************************************************************)
connection_status(sock, flag) ==
    IF flag /\ sock # NoSocket THEN "CONNECTED" ELSE "DISCONNECTED"

(***************************************************************************)
(* The tool get_connection_status (lines 180-187): "with socket_lock",     *)
(* read both globals, return the text.                                     *)
(***************************************************************************)
get_connection_status(t) ==
    /\ pc[Main] = "run"
    /\ pc[t] = "idle"
    /\ CanAcquire(t)
    /\ pc' = [pc EXCEPT ![t] = "done"]
    /\ result' = [result EXCEPT ![t] =
                      ToolResult(connection_status(blender_socket, socket_connected), 0)]
    /\ UNCHANGED <<blender_socket, socket_connected, socket_lock, attempt, exc, cur,
                   calls, socks, serverUp, link, reqs, resps, failedOn,
                   mustReconnect>>
    /\ UNCHANGED hostVars

(***************************************************************************)
(* Faulty disconnect_state: the flag is not cleared.                       *)
(***************************************************************************)
disconnect_state_keeps_flag(sock, flag) ==
    IF sock # NoSocket THEN <<NoSocket, flag>> ELSE <<sock, flag>>

(***************************************************************************)
(* disconnect_from_blender, lines 60-66: the values of blender_socket and  *)
(* socket_connected it leaves; without a socket it changes nothing.        *)
(***************************************************************************)
disconnect_state(sock, flag) ==
    IF sock # NoSocket THEN <<NoSocket, FALSE>> ELSE <<sock, flag>>

(***************************************************************************)
(* disconnect_from_blender, run by the finally clause of the module body   *)
(* when mcp.run() ends (lines 55-66, 191-196).                             *)
(***************************************************************************)
disconnect_from_blender ==
    /\ pc[Main] = "run"
    /\ CanAcquire(Main)
    /\ pc' = [pc EXCEPT ![Main] = "exited"]
    /\ blender_socket' = disconnect_state(blender_socket, socket_connected)[1]
    /\ socket_connected' = disconnect_state(blender_socket, socket_connected)[2]
    /\ IF blender_socket # NoSocket
       THEN /\ socks' = socks \ {blender_socket}
            /\ link' = "none"
            /\ reqs' = <<>>
            /\ resps' = <<>>
            /\ failedOn' = FALSE
       ELSE UNCHANGED <<socks, link, reqs, resps, failedOn>>
    /\ UNCHANGED <<socket_lock, attempt, exc, result, cur, calls, serverUp,
                   mustReconnect>>
    /\ UNCHANGED hostVars

(***************************************************************************)
(* The peer of the client socket: handle_client of the addon answers the   *)
(* oldest request it has read with one response chunk (addon.py 360-395).  *)
(* "garbage" is a response the client cannot decode (longer than the 4096  *)
(* bytes one recv returns).                                                *)
(***************************************************************************)
peer_respond ==
    /\ link = "up"
    /\ reqs # <<>>
    /\ \E b \in {"success", "scene", "error", "garbage", "braces"} :
         resps' = Append(resps, [re |-> Head(reqs), body |-> b])
    /\ reqs' = Tail(reqs)
    /\ UNCHANGED <<blender_socket, socket_connected, socket_lock, pc, attempt,
                   exc, result, cur, calls, socks, serverUp, link, failedOn,
                   mustReconnect>>
    /\ UNCHANGED hostVars

(***************************************************************************)
(* The addon process is killed: its listener and its connection go away.   *)
(***************************************************************************)
kill_server ==
    /\ serverUp
    /\ serverUp' = FALSE
    /\ link' = IF link = "up" THEN "down" ELSE link
    /\ reqs' = <<>>
    /\ UNCHANGED <<blender_socket, socket_connected, socket_lock, pc, attempt,
                   exc, result, cur, calls, socks, resps, failedOn,
                   mustReconnect>>
    /\ UNCHANGED hostVars

(***************************************************************************)
(* The addon is started again and listens on the port (addon.py 37-41).    *)
(***************************************************************************)
start_server ==
    /\ ~serverUp
    /\ serverUp' = TRUE
    /\ UNCHANGED <<blender_socket, socket_connected, socket_lock, pc, attempt,
                   exc, result, cur, calls, socks, link, reqs, resps, failedOn,
                   mustReconnect>>
    /\ UNCHANGED hostVars

(***************************************************************************)
(* The steps a thread takes inside connect_to_blender or inside a call.    *)
(***************************************************************************)
ThreadStep(t) ==
    \/ connect_attempt(t)
    \/ connect_sleep(t)
    \/ connect_mark(t)
    \/ connect_failed(t)
    \/ ensure_acquire(t)
    \/ ensure_connection(t)
    \/ send_acquire(t)
    \/ sendall(t)
    \/ recv(t)
    \/ except_mark(t)
    \/ return(t)
    \/ tool_return(t)
    \/ get_connection_status(t)

(***************************************************************************)
(*                          render/addon.py                                *)
(***************************************************************************)

(***************************************************************************)
(* Keys of COMMAND_MAP.                                                    *)
(***************************************************************************)
COMMAND_MAP ==
    {"execute_code", "get_scene_info", "get_blender_info",
     "get_blender_context", "draw_stroke", "draw_circle", "render_image"}

(***************************************************************************)
(* A request without a "command" field: request_data.get("command") is     *)
(* None, which the f-string of the unknown-command fault prints as "None". *)
(***************************************************************************)
NoCommand == "<no command>"

str(command) == IF command = NoCommand THEN "None" ELSE command

(***************************************************************************)
(* A payload mapping: the keys it holds and the values the handlers read   *)
(* (the number of points, the number of segments, the code, the file       *)
(* format); a value is meaningful only when its key is present.            *)
(***************************************************************************)
EmptyPayload ==
    [keys |-> {}, points |-> 0, segments |-> 0, code |-> "", file_format |-> ""]

StrokeKeys == {"layer_name", "color", "points"}

CircleKeys == {"layer_name", "color", "radius"}

\* Programs handed to execute_code: the empty string, one that prints, one
\* that prints nothing, one that raises an Exception, one that raises
\* json.JSONDecodeError (json.loads of bad text), one that calls sys.exit.
CodeKinds == {"", "print", "pass", "raise", "raise_decode", "exit"}

StrokePayloads ==
    {[EmptyPayload EXCEPT !.keys = k] : k \in (SUBSET StrokeKeys) \ {StrokeKeys}}
    \cup {[EmptyPayload EXCEPT !.keys = StrokeKeys, !.points = n] : n \in 0..MaxPoints}

CirclePayloads ==
    {[EmptyPayload EXCEPT !.keys = k] : k \in SUBSET CircleKeys}
    \cup {[EmptyPayload EXCEPT !.keys = CircleKeys \cup {"segments"}, !.segments = n] :
             n \in 0..MaxSegments}

ExecPayloads ==
    {EmptyPayload} \cup {[EmptyPayload EXCEPT !.keys = {"code"}, !.code = c] : c \in CodeKinds}

RenderPayloads ==
    {EmptyPayload}
    \cup {[EmptyPayload EXCEPT !.keys = {"file_format"}, !.file_format = f] :
             f \in {"png", "GIF"}}

PayloadsOf(command) ==
    CASE command = "draw_stroke"  -> StrokePayloads
      [] command = "draw_circle"  -> CirclePayloads
      [] command = "execute_code" -> ExecPayloads
      [] command = "render_image" -> RenderPayloads
      [] OTHER                    -> {EmptyPayload}

(***************************************************************************)
(* The chunks a peer can write: bytes that are not UTF-8, text that is not *)
(* JSON, JSON that is not an object, and JSON objects with or without the  *)
(* "command" and "payload" fields.                                         *)
(***************************************************************************)
CommandNames == COMMAND_MAP \cup {"bogus", NoCommand}

BadKinds == {"badutf8", "badjson"}

Chunks ==
    {[kind |-> k, command |-> NoCommand, has_payload |-> FALSE, payload |-> EmptyPayload] :
        k \in BadKinds \cup {"nonobject"}}
    \cup {[kind |-> "object", command |-> c, has_payload |-> FALSE, payload |-> EmptyPayload] :
             c \in CommandNames}
    \cup UNION {{[kind |-> "object", command |-> c, has_payload |-> TRUE, payload |-> p] :
                    p \in PayloadsOf(c)} : c \in CommandNames}

NoChunk == [kind |-> "none", command |-> NoCommand, has_payload |-> FALSE,
            payload |-> EmptyPayload]

(***************************************************************************)
(* Result mappings of the handlers: the keys, the text of the message or   *)
(* output, and the number the message reports.                             *)
(***************************************************************************)
NoData == [keys |-> {}, text |-> <<>>, n |-> 0]

Data(keys, text, n) == [keys |-> keys, text |-> text, n |-> n]

(***************************************************************************)
(* How a handler call ends: it returns a mapping, raises an Exception with *)
(* a message, or raises a BaseException that is no Exception (SystemExit   *)
(* from executed code).  effects: what it did to Blender before that.      *)
(***************************************************************************)
Return(data, eff) == [kind |-> "return", data |-> data, msg |-> <<>>, effects |-> eff]

Raise(msg, eff) == [kind |-> "raise", data |-> NoData, msg |-> msg, effects |-> eff]

Exit(eff) == [kind |-> "exit", data |-> NoData, msg |-> <<>>, effects |-> eff]

\* The handler raises json.JSONDecodeError (a ValueError) with a message.
RaiseDecode(msg, eff) ==
    [kind |-> "raise_decode", data |-> NoData, msg |-> msg, effects |-> eff]

\* No handler was called.
NoOutcome == [kind |-> "none", data |-> NoData, msg |-> <<>>, effects |-> {}]

(***************************************************************************)
(* Faulty has_required:    "any" in place of "all".                        *)
(***************************************************************************)
has_any_required(payload, required) == required \cap payload.keys # {}

(***************************************************************************)
(* all(k in payload for k in required_keys)                                *)
(***************************************************************************)
has_required(payload, required) == required \subseteq payload.keys

(***************************************************************************)
(* Faulty handle_draw_stroke: the message counts one point too few.        *)
(***************************************************************************)
handle_draw_stroke_miscount(payload, bpy) ==
    IF ~(StrokeKeys \subseteq payload.keys)
    THEN Raise(<<"Payload for '", "draw_stroke", "' must contain ",
                 "layer_name", "color", "points">>, {})
    ELSE IF payload.points = 0
    THEN Return(Data({"status", "message"},
                     <<"No points provided, nothing to draw.">>, 0), {})
    ELSE IF bpy = "fault"
    THEN Raise(<<"Could not find or create a frame for layer '", "<layer>", "'">>,
               {"layer"})
    ELSE Return(Data({"message"}, <<"Stroke with ", "n", " points drawn on layer '",
                                    "<layer>", "'">>, payload.points - 1),
                {"layer", "stroke"})

(***************************************************************************)
(* handle_draw_stroke.  bpy = "fault": no frame could be found or created  *)
(* for the layer.                                                          *)
(***************************************************************************)
handle_draw_stroke(payload, bpy) ==
    IF ~has_required(payload, StrokeKeys)
    THEN Raise(<<"Payload for '", "draw_stroke", "' must contain ",
                 "layer_name", "color", "points">>, {})
    ELSE IF payload.points = 0
    THEN Return(Data({"status", "message"},
                     <<"No points provided, nothing to draw.">>, 0), {})
    ELSE IF bpy = "fault"
    THEN Raise(<<"Could not find or create a frame for layer '", "<layer>", "'">>,
               {"layer"})
    ELSE Return(Data({"message"}, <<"Stroke with ", "n", " points drawn on layer '",
                                    "<layer>", "'">>, payload.points),
                {"layer", "stroke"})

(***************************************************************************)
(* Faulty handle_draw_circle: range(segments) in place of                  *)
(* range(segments + 1), so the circle is not closed.                       *)
(***************************************************************************)
handle_draw_circle_open(payload, bpy) ==
    IF ~(CircleKeys \subseteq payload.keys)
    THEN Raise(<<"Payload for '", "draw_circle", "' must contain ",
                 "layer_name", "color", "radius">>, {})
    ELSE LET segments == IF "segments" \in payload.keys THEN payload.segments
                                                         ELSE default_segments
         IN  handle_draw_stroke(
                 [EmptyPayload EXCEPT
                     !.keys = StrokeKeys \cup {"clear_layer"},
                     !.points = segments], bpy)

(***************************************************************************)
(* handle_draw_circle: segments + 1 points handed to handle_draw_stroke;   *)
(* with segments = 0 the angle computation divides by zero.                *)
(***************************************************************************)
handle_draw_circle(payload, bpy) ==
    IF ~has_required(payload, CircleKeys)
    THEN Raise(<<"Payload for '", "draw_circle", "' must contain ",
                 "layer_name", "color", "radius">>, {})
    ELSE LET segments == IF "segments" \in payload.keys THEN payload.segments
                                                         ELSE default_segments
         IN  IF segments = 0
             THEN Raise(<<"float division by zero">>, {})
             ELSE handle_draw_stroke(
                      [EmptyPayload EXCEPT
                          !.keys = StrokeKeys \cup {"clear_layer"},
                          !.points = segments + 1], bpy)

(***************************************************************************)
(* handle_execute_code: payload.get("code") must be truthy; then exec.     *)
(***************************************************************************)
handle_execute_code(payload) ==
    IF "code" \notin payload.keys \/ payload.code = ""
    THEN Raise(<<"Payload for '", "execute_code", "' must contain a '", "code",
                 "' field.">>, {})
    ELSE CASE payload.code = "print" ->
                Return(Data({"output"}, <<"printed text">>, 0), {"exec"})
           [] payload.code = "pass" ->
                Return(Data({"output"}, <<"Script executed successfully (no output).">>, 0),
                       {"exec"})
           [] payload.code = "raise" -> Raise(<<"str(e)">>, {"exec"})
           [] payload.code = "raise_decode" ->
                RaiseDecode(<<"Expecting value: line 1 column 1 (char 0)">>, {"exec"})
           [] OTHER -> Exit({"exec"})

(***************************************************************************)
(* str.upper() on the file formats of the model.                           *)
(***************************************************************************)
upper(f) == IF f = "png" THEN "PNG" ELSE f

supported_formats == {"PNG", "JPEG", "BMP", "TARGA", "OPEN_EXR", "TIFF"}

(***************************************************************************)
(* handle_render_image.  bpy = "fault": bpy.ops.render.render raised.      *)
(***************************************************************************)
handle_render_image(payload, bpy) ==
    LET file_format == upper(IF "file_format" \in payload.keys
                             THEN payload.file_format ELSE "PNG")
    IN  IF file_format \notin supported_formats
        THEN Raise(<<"Unsupported file format: '", file_format, "'">>, {})
        ELSE IF bpy = "fault"
        THEN Raise(<<"Blender rendering failed: ", "str(e)">>, {"render_settings"})
        ELSE Return(Data({"status", "image_path"}, <<>>, 0),
                    {"render_settings", "render"})

(***************************************************************************)
(* handle_get_scene_info, handle_get_blender_info,                         *)
(* handle_get_blender_context.  bpy = "fault": an attribute of bpy.context *)
(* is missing in the accept thread.                                        *)
(***************************************************************************)
handle_get_scene_info(payload, bpy) ==
    IF bpy = "fault" THEN Raise(<<"str(e)">>, {})
    ELSE Return(Data({"scene_name", "object_count", "active_object",
                      "selected_objects", "mode"}, <<>>, 0), {})

handle_get_blender_info(payload) ==
    Return(Data({"blender_version"}, <<>>, 0), {})

handle_get_blender_context(payload, bpy) ==
    IF bpy = "fault" THEN Raise(<<"str(e)">>, {})
    ELSE Return(Data({"active_window_type", "active_screen_name", "mode"}, <<>>, 0), {})

(***************************************************************************)
(* handler = COMMAND_MAP[command]; handler(payload)                        *)
(***************************************************************************)
handler(command, payload, bpy) ==
    CASE command = "execute_code"        -> handle_execute_code(payload)
      [] command = "get_scene_info"      -> handle_get_scene_info(payload, bpy)
      [] command = "get_blender_info"    -> handle_get_blender_info(payload)
      [] command = "get_blender_context" -> handle_get_blender_context(payload, bpy)
      [] command = "draw_stroke"         -> handle_draw_stroke(payload, bpy)
      [] command = "draw_circle"         -> handle_draw_circle(payload, bpy)
      [] command = "render_image"        -> handle_render_image(payload, bpy)

(***************************************************************************)
(* Response mappings of handle_client, as json.dumps writes them: the keys *)
(* present and their values.                                               *)
(***************************************************************************)
SuccessResponse(data) ==
    [keys |-> {"status", "data"}, status |-> "success", data |-> data,
     error_message |-> <<>>]

ErrorResponse(msg) ==
    [keys |-> {"status", "error_message"}, status |-> "error", data |-> NoData,
     error_message |-> msg]

\* response = {}
EmptyResponse == [keys |-> {}, status |-> "", data |-> NoData, error_message |-> <<>>]

(***************************************************************************)
(* Faulty unknown_command:    the fault does not name the command.         *)
(***************************************************************************)
unknown_command_unnamed(command) == Raise(<<"Unknown command">>, {})

(***************************************************************************)
(* raise ValueError(f"Unknown command: '{command}'")                       *)
(***************************************************************************)
unknown_command(command) == Raise(<<"Unknown command: '", str(command), "'">>, {})

(***************************************************************************)
(* Faulty try_body: request_data["payload"] in place of                    *)
(* request_data.get("payload", {}), a KeyError without the field.          *)
(***************************************************************************)
try_body_payload_required(c, bpy) ==
    CASE c.kind = "badjson" ->
            [end |-> "JSONDecodeError", out |-> Raise(<<"Invalid JSON">>, {}),
             invoked |-> "none"]
      [] c.kind = "badutf8" ->
            [end |-> "Exception",
             out |-> Raise(<<"'utf-8' codec can't decode byte">>, {}),
             invoked |-> "none"]
      [] c.kind = "nonobject" ->
            [end |-> "Exception",
             out |-> Raise(<<"object has no attribute 'get'">>, {}),
             invoked |-> "none"]
      [] c.kind = "object" /\ ~c.has_payload ->
            [end |-> "Exception", out |-> Raise(<<"'payload'">>, {}),
             invoked |-> "none"]
      [] OTHER ->
            IF c.command \in COMMAND_MAP
            THEN LET out == handler(c.command, c.payload, bpy)
                 IN  [end |-> CASE out.kind = "return" -> "return"
                                [] out.kind = "raise"  -> "Exception"
                                [] out.kind = "raise_decode" -> "JSONDecodeError"
                                [] OTHER               -> "BaseException",
                      out |-> out, invoked |-> c.command]
            ELSE [end |-> "Exception", out |-> unknown_command(c.command),
                  invoked |-> "none"]

(***************************************************************************)
(* The body of the try block of handle_client (lines 370-383): how it      *)
(* ends for a chunk.  "invoked" names the handler that was called.         *)
(***************************************************************************)
try_body(c, bpy) ==
    CASE c.kind = "badjson" ->
            [end |-> "JSONDecodeError", out |-> Raise(<<"Invalid JSON">>, {}),
             invoked |-> "none"]
      [] c.kind = "badutf8" ->
            [end |-> "Exception",
             out |-> Raise(<<"'utf-8' codec can't decode byte">>, {}),
             invoked |-> "none"]
      [] c.kind = "nonobject" ->
            [end |-> "Exception",
             out |-> Raise(<<"object has no attribute 'get'">>, {}),
             invoked |-> "none"]
      [] OTHER ->
            LET payload == IF c.has_payload THEN c.payload ELSE EmptyPayload
            IN  IF c.command \in COMMAND_MAP
                THEN LET out == handler(c.command, payload, bpy)
                     IN  [end |-> CASE out.kind = "return" -> "return"
                                    [] out.kind = "raise"  -> "Exception"
                                    [] out.kind = "raise_decode" -> "JSONDecodeError"
                                    [] OTHER               -> "BaseException",
                          out |-> out, invoked |-> c.command]
                ELSE [end |-> "Exception", out |-> unknown_command(c.command),
                      invoked |-> "none"]

(***************************************************************************)
(* Faulty except_clauses:    no clause for JSONDecodeError and none that   *)
(* would catch it, so a decode error leaves the loop.                      *)
(***************************************************************************)
except_clauses_no_decode(end, out) ==
    CASE end = "return" -> [response |-> SuccessResponse(out.data), pending |-> "none"]
      [] end = "Exception" -> [response |-> ErrorResponse(out.msg), pending |-> "none"]
      [] OTHER -> [response |-> EmptyResponse, pending |-> end]

(***************************************************************************)
(* The value of response when the finally clause runs (lines 369-392), and *)
(* the exception that keeps propagating after it: "except Exception" does  *)
(* not catch a BaseException, which leaves response = {}.                  *)
(***************************************************************************)
except_clauses(end, out) ==
    CASE end = "return" -> [response |-> SuccessResponse(out.data), pending |-> "none"]
      [] end = "JSONDecodeError" ->
            [response |-> ErrorResponse(<<"Invalid JSON format received.">>),
             pending |-> "none"]
      [] end = "Exception" -> [response |-> ErrorResponse(out.msg), pending |-> "none"]
      [] OTHER -> [response |-> EmptyResponse, pending |-> end]


lifeVars == <<bound, elapsed, acc_wait, warned, stop_in_accept>>

procVars == <<server_thread, opc, sys_stdout>>

sessionVars == <<inbox, nsent, chunk, response, pending, invoked, effects, outcome, wrote,
                 prevKind, nread, nwritten>>

(***************************************************************************)
(* register (lines 1364-1374), called when no accept thread of an earlier  *)
(* register is alive: set the flag, start the accept thread.               *)
(***************************************************************************)
register ==
    /\ ~registered
    /\ hpc = "idle"
    /\ spc \in {"none", "stopped"}
    /\ opc = "none"
    /\ is_running' = TRUE
    /\ registered' = TRUE
    /\ spc' = "bind"
    /\ server_thread' = "accept"
    /\ wrote' = FALSE
    /\ bound' = "no"
    /\ warned' = FALSE
    /\ stop_in_accept' = FALSE
    /\ UNCHANGED <<elapsed, acc_wait>>
    /\ UNCHANGED <<hpc, listening, backlog, conn, peer, inbox, nsent, chunk,
                   response, pending, invoked, effects, outcome, prevKind, nread, nwritten>>
    /\ UNCHANGED <<opc, sys_stdout>>
    /\ UNCHANGED clientVars

(***************************************************************************)
(* register (lines 1364-1374), called while the accept thread of an        *)
(* earlier register is still alive (unregister gave up its join, or joined *)
(* a later thread): the function does not look at the old thread; it sets  *)
(* the flag, which the old thread reads at its next loop test, and starts  *)
(* one more thread, to which server_thread now refers.                     *)
(***************************************************************************)
register_again ==
    /\ ~registered
    /\ hpc = "idle"
    /\ spc \notin {"none", "stopped"}
    /\ opc = "none"
    /\ is_running' = TRUE
    /\ registered' = TRUE
    /\ opc' = "bind"
    /\ server_thread' = "other"
    /\ bound' = "no"
    /\ warned' = FALSE
    /\ stop_in_accept' = FALSE
    /\ UNCHANGED <<elapsed, acc_wait, sys_stdout>>
    /\ UNCHANGED <<hpc, spc, listening, backlog, conn, peer, sessionVars>>
    /\ UNCHANGED clientVars

(***************************************************************************)
(* "server_thread and server_thread.is_alive()" (line 1386): the thread    *)
(* the last register started (line 1371) exists and has not ended.         *)
(***************************************************************************)
is_alive ==
    CASE server_thread = "accept" -> spc \notin {"none", "stopped"}
      [] server_thread = "other"  -> opc # "none"
      [] OTHER                    -> FALSE

(***************************************************************************)
(* unregister, lines 1382-1386: clear the flag; join only a live thread.   *)
(* The listening socket is not touched.  The pending accept, if any, has   *)
(* already waited some part of its timeout.                                *)
(***************************************************************************)
unregister ==
    /\ hpc = "idle"
    /\ is_running' = FALSE
    /\ warned' = FALSE
    /\ stop_in_accept' = (spc = "accept")
    /\ elapsed' = 0
    /\ IF is_alive
       THEN /\ hpc' = "join"
            /\ \E w \in 0..accept_timeout :
                 acc_wait' = IF spc = "accept" THEN w ELSE 0
            /\ UNCHANGED registered
       ELSE /\ registered' = FALSE
            /\ acc_wait' = 0
            /\ UNCHANGED hpc
    /\ UNCHANGED <<spc, listening, backlog, conn, peer, sessionVars, bound>>
    /\ UNCHANGED procVars
    /\ UNCHANGED clientVars

(***************************************************************************)
(* Faulty join_returns: a join without timeout.                            *)
(***************************************************************************)
join_unbounded(alive, waited) == ~alive

(***************************************************************************)
(* server_thread.join(timeout=2.0) returns when the thread has ended or    *)
(* when the timeout is over.                                               *)
(***************************************************************************)
join_returns(alive, waited) == ~alive \/ waited >= join_timeout

(***************************************************************************)
(* unregister, lines 1387-1391: join returns; a thread that is still alive *)
(* gets the warning; then unregister returns.                              *)
(***************************************************************************)
unregister_join ==
    /\ hpc = "join"
    /\ join_returns(is_alive, elapsed)
    /\ hpc' = "idle"
    /\ registered' = FALSE
    /\ warned' = is_alive
    /\ elapsed' = 0
    /\ acc_wait' = 0
    /\ UNCHANGED <<is_running, spc, listening, backlog, conn, peer, sessionVars,
                   bound, stop_in_accept>>
    /\ UNCHANGED procVars
    /\ UNCHANGED clientVars

(***************************************************************************)
(* socket_server_thread, lines 37-41 and 62-63: bind and listen; a failure *)
(* (address in use) is caught by the outer clause and the thread ends.     *)
(***************************************************************************)
server_bind ==
    /\ spc = "bind"
    /\ \E ok \in BOOLEAN :
         IF ok THEN /\ listening' = TRUE
                    /\ spc' = "accept_check"
                    /\ bound' = "ok"
               ELSE /\ spc' = "stopped"
                    /\ bound' = "failed"
                    /\ UNCHANGED listening
    /\ UNCHANGED <<elapsed, acc_wait, warned, stop_in_accept>>
    /\ UNCHANGED <<is_running, registered, hpc, backlog, conn, peer, sessionVars>>
    /\ UNCHANGED procVars
    /\ UNCHANGED clientVars

(***************************************************************************)
(* socket_server_thread, lines 35-41 and 62-63, in a thread started beside *)
(* a live one.  While the listener of the older thread is open the bind    *)
(* fails with "Address already in use" (SO_REUSEADDR does not admit a      *)
(* second listener on the port) and the thread ends.  When the older       *)
(* thread has ended meanwhile the bind can succeed, and this thread is the *)
(* accept thread from then on.                                             *)
(***************************************************************************)
server_bind_other ==
    /\ opc = "bind"
    /\ opc' = "none"
    /\ \E ok \in IF listening \/ spc = "bind" THEN {FALSE} ELSE BOOLEAN :
         IF ok THEN /\ listening' = TRUE
                    /\ spc' = "accept_check"
                    /\ server_thread' = "accept"
                    /\ bound' = "ok"
               ELSE /\ bound' = "failed"
                    /\ UNCHANGED <<listening, spc, server_thread>>
    /\ UNCHANGED <<elapsed, acc_wait, warned, stop_in_accept, sys_stdout>>
    /\ UNCHANGED <<is_running, registered, hpc, backlog, conn, peer, sessionVars>>
    /\ UNCHANGED clientVars

(***************************************************************************)
(* socket_server_thread, "while is_running:" (line 43); leaving the loop   *)
(* leaves "with socket.socket(...) as s", which closes the listener.       *)
(***************************************************************************)
accept_check ==
    /\ spc = "accept_check"
    /\ IF is_running
       THEN /\ spc' = "accept"
            /\ UNCHANGED <<listening, backlog>>
       ELSE /\ spc' = "stopped"
            /\ listening' = FALSE
            /\ backlog' = 0
    /\ acc_wait' = 0
    /\ UNCHANGED <<is_running, registered, hpc, conn, peer, sessionVars>>
    /\ UNCHANGED <<bound, elapsed, warned, stop_in_accept>>
    /\ UNCHANGED procVars
    /\ UNCHANGED clientVars

(***************************************************************************)
(* Faulty accept_ready: handle_client handed to a thread of its own, so    *)
(* the loop is back in accept while a session is open.                     *)
(***************************************************************************)
accept_ready_threaded(p) == p \in {"accept", "loop_check", "recv"}

(***************************************************************************)
(* The accept thread calls s.accept() only at line 48 of its loop:         *)
(* handle_client(conn) is an ordinary call (line 52) that returns before   *)
(* the loop goes on.                                                       *)
(***************************************************************************)
accept_ready(p) == p = "accept"

(***************************************************************************)
(* s.settimeout(1.0): the pending accept raises socket.timeout once it has *)
(* waited accept_timeout seconds.                                          *)
(***************************************************************************)
accept_expired(waited) == waited >= accept_timeout

(***************************************************************************)
(* What s.accept() can do (lines 47-48): return a queued connection, raise *)
(* socket.timeout, or raise another OSError (connection aborted, no file   *)
(* descriptors left).  Time is measured only while unregister waits in     *)
(* join; outside of it the timeout can come at any moment.                 *)
(***************************************************************************)
AcceptOutcomes ==
    (IF backlog > 0 THEN {"conn"} ELSE {})
    \cup (IF backlog = 0 /\ (hpc = "join" => accept_expired(acc_wait))
          THEN {"timeout"} ELSE {})
    \cup {"error"}

(***************************************************************************)
(* socket_server_thread, lines 45-60: accept with a 1 s timeout; a         *)
(* connection starts handle_client in this thread, a timeout goes back to  *)
(* the loop test, any other exception leaves the loop (break), which       *)
(* closes the listener.                                                    *)
(***************************************************************************)
accept ==
    /\ accept_ready(spc)
    /\ \E o \in AcceptOutcomes :
         CASE o = "conn" ->
                /\ backlog' = backlog - 1
                /\ conn' = "open"
                /\ peer' = "connected"
                /\ spc' = "loop_check"
                /\ inbox' = <<>>
                /\ nsent' = 0
                /\ chunk' = NoChunk
                /\ response' = EmptyResponse
                /\ pending' = "none"
                /\ invoked' = "none"
                /\ effects' = {}
                /\ outcome' = NoOutcome
                /\ wrote' = FALSE
                /\ prevKind' = "none"
                /\ nread' = 0
                /\ nwritten' = 0
                /\ UNCHANGED listening
           [] o = "timeout" ->
                /\ spc' = "accept_check"
                /\ UNCHANGED <<backlog, conn, peer, sessionVars, listening>>
           [] OTHER ->
                /\ spc' = "stopped"
                /\ listening' = FALSE
                /\ backlog' = 0
                /\ UNCHANGED <<conn, peer, sessionVars>>
    /\ UNCHANGED <<is_running, registered, hpc>>
    /\ UNCHANGED lifeVars
    /\ UNCHANGED procVars
    /\ UNCHANGED clientVars

(***************************************************************************)
(* One second passes while unregister waits in join (line 1388) and the    *)
(* accept thread is blocked: in s.accept() with nothing queued and its     *)
(* timeout not over (line 48), or in conn.recv(4096), which has no         *)
(* timeout, with a connected peer that has written nothing (line 364).     *)
(* Every other step of the thread takes no time at this scale.             *)
(***************************************************************************)
time_passes ==
    /\ hpc = "join"
    /\ elapsed < join_timeout
    /\ opc = "none"
    /\ \/ spc = "accept" /\ backlog = 0 /\ ~accept_expired(acc_wait)
       \/ spc = "recv" /\ inbox = <<>> /\ peer = "connected"
    /\ elapsed' = elapsed + 1
    /\ acc_wait' = IF spc = "accept" THEN acc_wait + 1 ELSE acc_wait
    /\ UNCHANGED <<is_running, registered, hpc, spc, listening, backlog, conn, peer,
                   sessionVars, bound, warned, stop_in_accept>>
    /\ UNCHANGED procVars
    /\ UNCHANGED clientVars

(***************************************************************************)
(* handle_client, "while is_running:" (line 361); leaving the loop leaves  *)
(* "with conn", which closes the connection, and handle_client returns.    *)
(***************************************************************************)
loop_check ==
    /\ spc = "loop_check"
    /\ wrote' = FALSE
    /\ IF is_running
       THEN /\ spc' = "recv"
            /\ UNCHANGED <<conn, peer, inbox>>
       ELSE /\ spc' = "accept_check"
            /\ conn' = "closed"
            /\ peer' = "none"
            /\ inbox' = <<>>
    /\ UNCHANGED <<is_running, registered, hpc, listening, backlog, nsent, chunk,
                   response, pending, invoked, effects, outcome, prevKind, nread, nwritten>>
    /\ UNCHANGED lifeVars
    /\ UNCHANGED procVars
    /\ UNCHANGED clientVars

(***************************************************************************)
(* Faulty session_recv: handle_client without its outer except clauses, so *)
(* a ConnectionResetError of recv leaves handle_client and ends the accept *)
(* loop (break), which closes the listener.                                *)
(***************************************************************************)
session_recv_unguarded ==
    /\ spc = "recv"
    /\ inbox # <<>> \/ peer \in {"fin", "rst"}
    /\ IF inbox # <<>>
       THEN /\ chunk' = Head(inbox)
            /\ inbox' = Tail(inbox)
            /\ response' = EmptyResponse
            /\ pending' = "none"
            /\ invoked' = "none"
            /\ effects' = {}
            /\ outcome' = NoOutcome
            /\ prevKind' = chunk.kind
            /\ nread' = nread + 1
            /\ spc' = "handle"
            /\ UNCHANGED <<conn, peer, listening, backlog>>
       ELSE /\ spc' = IF peer = "rst" THEN "stopped" ELSE "accept_check"
            /\ listening' = (peer # "rst" /\ listening)
            /\ backlog' = IF peer = "rst" THEN 0 ELSE backlog
            /\ conn' = "closed"
            /\ peer' = "none"
            /\ UNCHANGED <<chunk, inbox, response, pending, invoked, effects, outcome,
                           prevKind, nread>>
    /\ UNCHANGED <<is_running, registered, hpc, nsent, wrote, nwritten>>
    /\ UNCHANGED lifeVars
    /\ UNCHANGED procVars
    /\ UNCHANGED clientVars

(***************************************************************************)
(* handle_client, lines 364-368: conn.recv(4096) has no timeout; it        *)
(* returns the next chunk, or b"" after the peer closed (break), or raises *)
(* ConnectionResetError (caught at line 397).  "response = {}" follows a   *)
(* non-empty chunk.                                                        *)
(***************************************************************************)
session_recv ==
    /\ spc = "recv"
    /\ inbox # <<>> \/ peer \in {"fin", "rst"}
    /\ IF inbox # <<>>
       THEN /\ chunk' = Head(inbox)
            /\ inbox' = Tail(inbox)
            /\ response' = EmptyResponse
            /\ pending' = "none"
            /\ invoked' = "none"
            /\ effects' = {}
            /\ outcome' = NoOutcome
            /\ prevKind' = chunk.kind
            /\ nread' = nread + 1
            /\ spc' = "handle"
            /\ UNCHANGED <<conn, peer>>
       ELSE /\ spc' = "accept_check"
            /\ conn' = "closed"
            /\ peer' = "none"
            /\ UNCHANGED <<chunk, inbox, response, pending, invoked, effects, outcome,
                           prevKind, nread>>
    /\ UNCHANGED <<is_running, registered, hpc, listening, backlog, nsent, wrote,
                   nwritten>>
    /\ UNCHANGED lifeVars
    /\ UNCHANGED procVars
    /\ UNCHANGED clientVars

(***************************************************************************)
(* Faulty restore_stdout: the assignment after exec, not in a finally      *)
(* clause, so it is skipped when the executed code raises.                 *)
(***************************************************************************)
restore_stdout_after_exec(old_stdout, kind) ==
    IF kind = "return" THEN old_stdout ELSE "StringIO"

(***************************************************************************)
(* handle_execute_code, lines 75-85: sys.stdout after the call, which set  *)
(* it to a StringIO (line 76) and ran exec.  "finally: sys.stdout =        *)
(* old_stdout" runs however exec ended (return, Exception, SystemExit).    *)
(***************************************************************************)
restore_stdout(old_stdout, kind) == old_stdout

(***************************************************************************)
(* sys.stdout after handler(payload): only handle_execute_code touches it, *)
(* and only after its payload check (lines 70-72).                         *)
(***************************************************************************)
stdout_after(command, out, old_stdout) ==
    IF command = "execute_code" /\ "exec" \in out.effects
    THEN restore_stdout(old_stdout, out.kind)
    ELSE old_stdout

(***************************************************************************)
(* Faulty session_handle: the clause for JSONDecodeError goes on to the    *)
(* next read ("continue") without a response being written.                *)
(***************************************************************************)
session_handle_silent ==
    /\ spc = "handle"
    /\ \E bpy \in {"ok", "fault"} :
         LET b == try_body(chunk, bpy)
             r == except_clauses(b.end, b.out)
         IN  /\ response' = r.response
             /\ pending' = r.pending
             /\ invoked' = b.invoked
             /\ effects' = b.out.effects
             /\ outcome' = IF b.invoked = "none" THEN NoOutcome ELSE b.out
             /\ sys_stdout' = stdout_after(b.invoked, b.out, sys_stdout)
             /\ spc' = IF b.end = "JSONDecodeError" THEN "loop_check" ELSE "write"
    /\ UNCHANGED <<is_running, registered, hpc, listening, backlog, conn, peer,
                   inbox, nsent, chunk, wrote, prevKind, nread, nwritten>>
    /\ UNCHANGED lifeVars
    /\ UNCHANGED <<server_thread, opc>>
    /\ UNCHANGED clientVars

(***************************************************************************)
(* handle_client, lines 369-392: decode, dispatch, call the handler, and   *)
(* set response in the try block or in the except clause that matches.     *)
(***************************************************************************)
session_handle ==
    /\ spc = "handle"
    /\ \E bpy \in {"ok", "fault"} :
         LET b == try_body(chunk, bpy)
             r == except_clauses(b.end, b.out)
         IN  /\ response' = r.response
             /\ pending' = r.pending
             /\ invoked' = b.invoked
             /\ effects' = b.out.effects
             /\ outcome' = IF b.invoked = "none" THEN NoOutcome ELSE b.out
             /\ sys_stdout' = stdout_after(b.invoked, b.out, sys_stdout)
    /\ spc' = "write"
    /\ UNCHANGED <<is_running, registered, hpc, listening, backlog, conn, peer,
                   inbox, nsent, chunk, wrote, prevKind, nread, nwritten>>
    /\ UNCHANGED lifeVars
    /\ UNCHANGED <<server_thread, opc>>
    /\ UNCHANGED clientVars

(***************************************************************************)
(* What conn.sendall can do (line 395): towards a peer that is gone it     *)
(* returns (the bytes are lost) or raises BrokenPipeError /                *)
(* ConnectionResetError.                                                   *)
(***************************************************************************)
WriteOutcomes == IF peer = "connected" THEN {"ok"} ELSE {"ok", "raise"}

(***************************************************************************)
(* handle_client, the finally clause (lines 393-395) and what follows it:  *)
(* the next loop test; or, with an exception of sendall, the clauses of    *)
(* lines 397-400, which end the session; or, with a BaseException still    *)
(* propagating, the end of handle_client and of socket_server_thread (no   *)
(* clause catches it), closing the connection and the listener.  Any other *)
(* exception still propagating would be caught at line 399.                *)
(***************************************************************************)
session_write ==
    /\ spc = "write"
    /\ \E o \in WriteOutcomes :
         IF o = "ok"
         THEN /\ nwritten' = nwritten + 1
              /\ wrote' = TRUE
              /\ CASE pending = "none" ->
                        /\ spc' = "loop_check"
                        /\ UNCHANGED <<conn, peer, inbox, listening, backlog>>
                   [] pending = "BaseException" ->
                        /\ spc' = "stopped"
                        /\ conn' = "closed"
                        /\ peer' = "none"
                        /\ inbox' = <<>>
                        /\ listening' = FALSE
                        /\ backlog' = 0
                   [] OTHER ->
                        /\ spc' = "accept_check"
                        /\ conn' = "closed"
                        /\ peer' = "none"
                        /\ inbox' = <<>>
                        /\ UNCHANGED <<listening, backlog>>
              /\ UNCHANGED pending
         ELSE /\ spc' = "accept_check"
              /\ conn' = "closed"
              /\ peer' = "none"
              /\ inbox' = <<>>
              /\ pending' = "none"
              /\ UNCHANGED <<nwritten, wrote, listening, backlog>>
    /\ UNCHANGED <<is_running, registered, hpc, nsent, chunk, response, invoked,
                   effects, outcome, prevKind, nread>>
    /\ UNCHANGED lifeVars
    /\ UNCHANGED procVars
    /\ UNCHANGED clientVars

(***************************************************************************)
(* A client connects to the listening port (test_addon.py 44;              *)
(* server.py 32): the kernel queues the connection.                        *)
(***************************************************************************)
peer_connect ==
    /\ listening
    /\ backlog < MaxBacklog
    /\ backlog' = backlog + 1
    /\ UNCHANGED <<is_running, registered, hpc, spc, listening, conn, peer,
                   sessionVars>>
    /\ UNCHANGED lifeVars
    /\ UNCHANGED procVars
    /\ UNCHANGED clientVars

(***************************************************************************)
(* The peer writes one chunk (test_addon.py 46; server.py 116).  A chunk   *)
(* written while the handler runs is read by the same later recv as one    *)
(* written after the response, so the model lets the peer write only       *)
(* while the session is at the loop test or in recv.                       *)
(***************************************************************************)
peer_send ==
    /\ conn = "open"
    /\ peer = "connected"
    /\ spc \in {"loop_check", "recv"}
    /\ inbox = <<>>
    /\ nsent < MaxChunks
    /\ \E c \in Chunks : inbox' = <<c>>
    /\ nsent' = nsent + 1
    /\ UNCHANGED <<is_running, registered, hpc, spc, listening, backlog, conn,
                   peer, chunk, response, pending, invoked, effects, outcome, wrote,
                   prevKind, nread, nwritten>>
    /\ UNCHANGED lifeVars
    /\ UNCHANGED procVars
    /\ UNCHANGED clientVars

(***************************************************************************)
(* The peer closes its socket (test_addon.py 43, leaving the with block)   *)
(* or dies: the session sees the end of the stream or a reset.             *)
(***************************************************************************)
peer_close ==
    /\ conn = "open"
    /\ peer = "connected"
    /\ \E m \in {"fin", "rst"} :
         /\ peer' = m
         /\ inbox' = IF m = "rst" THEN <<>> ELSE inbox
    /\ UNCHANGED <<is_running, registered, hpc, spc, listening, backlog, conn,
                   nsent, chunk, response, pending, invoked, effects, outcome, wrote,
                   prevKind, nread, nwritten>>
    /\ UNCHANGED lifeVars
    /\ UNCHANGED procVars
    /\ UNCHANGED clientVars

(***************************************************************************)
(*                           Specifications                                *)
(***************************************************************************)
(***************************************************************************)
(* The state before the module body of server.py reaches line 87 and       *)
(* before register() of the addon is called: the globals as lines 9-11 of  *)
(* server.py and lines 22-25 of addon.py set them, the addon not yet       *)
(* listening.                                                              *)
(***************************************************************************)
Init ==
    /\ blender_socket = NoSocket
    /\ socket_connected = FALSE
    /\ socket_lock = Free
    /\ pc = [t \in Procs |-> IF t = Main THEN "conn_try" ELSE "idle"]
    /\ attempt = [t \in Procs |-> 0]
    /\ exc = [t \in Procs |-> "none"]
    /\ result = [t \in Procs |-> NoResult]
    /\ cur = [t \in Procs |-> 0]
    /\ calls = 0
    /\ socks = {}
    /\ serverUp = FALSE
    /\ link = "none"
    /\ reqs = <<>>
    /\ resps = <<>>
    /\ failedOn = FALSE
    /\ mustReconnect = [t \in Procs |-> FALSE]
    /\ is_running = FALSE
    /\ registered = FALSE
    /\ hpc = "idle"
    /\ spc = "none"
    /\ listening = FALSE
    /\ backlog = 0
    /\ conn = "none"
    /\ peer = "none"
    /\ inbox = <<>>
    /\ nsent = 0
    /\ chunk = NoChunk
    /\ response = EmptyResponse
    /\ pending = "none"
    /\ invoked = "none"
    /\ effects = {}
    /\ outcome = NoOutcome
    /\ wrote = FALSE
    /\ prevKind = "none"
    /\ nread = 0
    /\ nwritten = 0
    /\ bound = "no"
    /\ elapsed = 0
    /\ acc_wait = 0
    /\ warned = FALSE
    /\ stop_in_accept = FALSE
    /\ server_thread = "none"
    /\ opc = "none"
    /\ sys_stdout = "original"

ClientNext ==
    \/ \E t \in Callers : call(t)
    \/ \E t \in Procs : ThreadStep(t)
    \/ disconnect_from_blender
    \/ peer_respond
    \/ kill_server
    \/ start_server

ClientSpec == Init /\ [][ClientNext]_vars

FairClientSpec == ClientSpec /\ \A t \in Procs : WF_vars(ThreadStep(t))

HostNext ==
    \/ register
    \/ register_again
    \/ unregister
    \/ unregister_join
    \/ server_bind
    \/ server_bind_other
    \/ accept_check
    \/ accept
    \/ loop_check
    \/ session_recv
    \/ session_handle
    \/ session_write
    \/ peer_connect
    \/ peer_send
    \/ peer_close
    \/ time_passes

HostSpec == Init /\ [][HostNext]_vars

(***************************************************************************)
(* A step of the accept thread (socket_server_thread and the handle_client *)
(* it calls).                                                              *)
(***************************************************************************)
HostThreadStep ==
    \/ server_bind
    \/ accept_check
    \/ accept
    \/ loop_check
    \/ session_recv
    \/ session_handle
    \/ session_write

(***************************************************************************)
(* HostSpec with weak fairness: the accept thread is scheduled whenever it *)
(* can run, time goes on while unregister waits, and unregister goes on    *)
(* when its join returns.  Nothing is assumed about the peers.             *)
(***************************************************************************)
FairHostSpec ==
    /\ HostSpec
    /\ WF_vars(HostThreadStep)
    /\ WF_vars(server_bind_other)
    /\ WF_vars(time_passes)
    /\ WF_vars(unregister_join)

(***************************************************************************)
(* Claims about render/server.py.                                          *)
(***************************************************************************)

(***************************************************************************)
(* C1: whenever a _send_blender_command call returns an I/O failure        *)
(* envelope (timeout, reset or broken pipe, undecodable response, empty    *)
(* response), the global socket_connected is False at that return, so the  *)
(* next ensure_connection connects again.                                  *)
(***************************************************************************)
C1_FailureMarksDisconnected ==
    [][\A t \in Callers :
          (pc[t] # "ret" /\ pc'[t] = "ret" /\ result'[t] \in IOFailures)
              => socket_connected' = FALSE]_vars

(***************************************************************************)
(* C2: every call of _send_blender_command that has started eventually     *)
(* returns to its caller with socket_lock not held by the calling thread.  *)
(***************************************************************************)
C2_EveryCallReturns ==
    \A t \in Callers :
        (pc[t] = "ens_lock") ~> (pc[t] = "ret" /\ socket_lock # t)

(***************************************************************************)
(* C3: once the server was killed under an established connection and a    *)
(* call has already failed on that connection, a call that then runs       *)
(* ensure_connection reconnects with between 1 and max_retries connect     *)
(* attempts and returns a success envelope or the connection-failure       *)
(* envelope (while the client process is serving, i.e. before its exit).   *)
(***************************************************************************)
C3_ReconnectsAfterKill ==
    \A t \in Callers :
        (pc[Main] = "run" /\ pc[t] = "ret" /\ mustReconnect[t])
            => /\ attempt[t] \in 1..max_retries
               /\ \/ result[t].status = "success"
                  \/ result[t] = ConnFailedEnvelope

(***************************************************************************)
(* C4: at most one request is in flight: while one caller is between the   *)
(* send of its request and the receive of the response, it holds           *)
(* socket_lock and no other caller is sending or receiving.                *)
(***************************************************************************)
InCycle(t) == pc[t] \in {"send", "recv"}

C4_OneRequestInFlight ==
    \A t \in Callers :
        InCycle(t) => /\ socket_lock = t
                      /\ \A u \in Callers \ {t} : ~InCycle(u)

(***************************************************************************)
(* Witness of C4: one caller waits for the response of its request while   *)
(* another caller, whose ensure_connection has returned, waits to send.    *)
(***************************************************************************)
C4_Witness ==
    \E t, u \in Callers :
        /\ t # u
        /\ pc[t] = "recv"
        /\ cur[t] \in {reqs[i] : i \in 1..Len(reqs)}
        /\ pc[u] = "snd_lock"

(***************************************************************************)
(* C5: whatever happened in the call (connect failure, no socket, timeout, *)
(* reset, undecodable or empty response, normal response), what            *)
(* _send_blender_command hands to its caller is an envelope whose status   *)
(* is "success" or "error", never a raised exception.                      *)
(***************************************************************************)
C5_AlwaysAnEnvelope ==
    \A t \in Callers :
        pc[t] = "ret" => result[t].status \in {"success", "error"}

(***************************************************************************)
(* Claims about render/addon.py.                                           *)
(***************************************************************************)

\* The response for chunk has been written and the accept thread has not
\* moved since.
Written == wrote

\* The try block and its except clauses have run for chunk.
Handled == spc = "write" \/ wrote

Tokens(msg) == {msg[i] : i \in 1..Len(msg)}

IsSuccessEnvelope(r) == r.status = "success" /\ r.keys = {"status", "data"}

IsErrorEnvelope(r) == r.status = "error" /\ r.keys = {"status", "error_message"}

RequestPayload == IF chunk.has_payload THEN chunk.payload ELSE EmptyPayload

(***************************************************************************)
(* C6: every chunk that decodes as a Command Envelope gets exactly one     *)
(* Response Envelope written, whatever the handler does, and after an      *)
(* error envelope was written the session is back at the top of its loop   *)
(* with the connection open.                                               *)
(***************************************************************************)
C6_OneEnvelopePerCommand ==
    /\ (Written /\ chunk.kind = "object")
          => /\ IsSuccessEnvelope(response) \/ IsErrorEnvelope(response)
             /\ IsErrorEnvelope(response) => spc = "loop_check" /\ conn = "open"
    /\ spc \in {"loop_check", "recv"} => nwritten = nread

(***************************************************************************)
(* C7: every response the session handler writes has exactly one of data   *)
(* and error_message: status=success with data, or status=error with       *)
(* error_message.                                                          *)
(***************************************************************************)
C7_ExactlyOneOfDataAndError ==
    Written =>
        \/ response.status = "success" /\ "data" \in response.keys
                                       /\ "error_message" \notin response.keys
        \/ response.status = "error" /\ "error_message" \in response.keys
                                     /\ "data" \notin response.keys

(***************************************************************************)
(* C8: for a request whose command is no key of COMMAND_MAP the response   *)
(* written is status=error with the message "Unknown command: '<name>'",   *)
(* which contains the command name; no handler was invoked, nothing was    *)
(* done to Blender and the session is back at the top of its loop with the *)
(* connection open.                                                        *)
(***************************************************************************)
C8_UnknownCommand ==
    (Handled /\ chunk.kind = "object" /\ chunk.command \notin COMMAND_MAP)
        => /\ IsErrorEnvelope(response)
           /\ response.error_message = <<"Unknown command: '", str(chunk.command), "'">>
           /\ str(chunk.command) \in Tokens(response.error_message)
           /\ invoked = "none"
           /\ effects = {}
           /\ Written => spc = "loop_check" /\ conn = "open"

C8_Witness ==
    /\ Written
    /\ chunk.kind = "object"
    /\ chunk.command = "bogus"
    /\ response.status = "error"
    /\ spc = "loop_check"

(***************************************************************************)
(* C9: for a chunk that is not valid JSON the response written is          *)
(* status=error, no handler was invoked, and the session is back at the    *)
(* top of its loop with the connection open; a get_blender_info request    *)
(* read next on the same connection gets its success response.             *)
(***************************************************************************)
C9_MalformedJson ==
    /\ (Handled /\ chunk.kind \in BadKinds)
          => /\ IsErrorEnvelope(response)
             /\ invoked = "none"
             /\ effects = {}
             /\ Written => spc = "loop_check" /\ conn = "open"
    /\ (Written /\ prevKind \in BadKinds /\ chunk.kind = "object"
                /\ chunk.command = "get_blender_info")
          => /\ IsSuccessEnvelope(response)
             /\ response.data.keys = {"blender_version"}

C9_Witness ==
    /\ Written
    /\ prevKind \in BadKinds
    /\ chunk.kind = "object"
    /\ chunk.command = "get_blender_info"
    /\ response.status = "success"
    /\ nwritten = 2

(***************************************************************************)
(* C10: when draw_stroke, draw_circle or execute_code is invoked with a    *)
(* payload that lacks one of its required keys, the response is            *)
(* status=error with a message that names the command and its required     *)
(* keys, and the handler has done nothing to Blender.                      *)
(***************************************************************************)
RequiredKeys(command) ==
    CASE command = "draw_stroke"  -> StrokeKeys
      [] command = "draw_circle"  -> CircleKeys
      [] command = "execute_code" -> {"code"}
      [] OTHER                    -> {}

C10_MissingRequiredKeys ==
    (/\ Handled
     /\ chunk.kind = "object"
     /\ chunk.command \in {"draw_stroke", "draw_circle", "execute_code"}
     /\ ~(RequiredKeys(chunk.command) \subseteq RequestPayload.keys))
        => /\ IsErrorEnvelope(response)
           /\ invoked = chunk.command
           /\ chunk.command \in Tokens(response.error_message)
           /\ RequiredKeys(chunk.command) \subseteq Tokens(response.error_message)
           /\ effects = {}

C10_Witness ==
    /\ Written
    /\ chunk.kind = "object"
    /\ chunk.command = "draw_circle"
    /\ chunk.has_payload
    /\ chunk.payload.keys = {"layer_name", "color"}
    /\ response.status = "error"
    /\ "radius" \in Tokens(response.error_message)


(***************************************************************************)
(* The result shape every handler declares: the keys of the mapping it     *)
(* hands back on success.                                                  *)
(***************************************************************************)
DeclaredShape(command) ==
    CASE command = "execute_code"        -> {"output"}
      [] command = "get_scene_info"      -> {"scene_name", "object_count", "active_object",
                                             "selected_objects", "mode"}
      [] command = "get_blender_info"    -> {"blender_version"}
      [] command = "get_blender_context" -> {"active_window_type", "active_screen_name",
                                             "mode"}
      [] command = "draw_stroke"         -> {"message"}
      [] command = "draw_circle"         -> {"message"}
      [] command = "render_image"        -> {"image_path"}

(***************************************************************************)
(* C11: for a command of COMMAND_MAP invoked with a payload that holds its *)
(* required keys (a draw_stroke with an empty points list included), a     *)
(* handler that completes gives a response with status=success whose data  *)
(* has exactly the keys of the handler's declared result shape.            *)
(***************************************************************************)
C11_SuccessHasDeclaredShape ==
    (/\ Written
     /\ chunk.kind = "object"
     /\ chunk.command \in COMMAND_MAP
     /\ RequiredKeys(chunk.command) \subseteq RequestPayload.keys
     /\ response.status = "success")
        => /\ IsSuccessEnvelope(response)
           /\ response.data.keys = DeclaredShape(chunk.command)


(***************************************************************************)
(* C12: for a command of COMMAND_MAP, when the handler raises an exception *)
(* the response is status=error with error_message equal to the message of *)
(* that exception, and when the handler returns a mapping the response is  *)
(* status=success with that mapping, unchanged, as data.                   *)
(***************************************************************************)
C12_FaultsAndResultsWrapped ==
    (Handled /\ invoked # "none")
        => /\ outcome.kind \in {"raise", "raise_decode"}
                 => response = ErrorResponse(outcome.msg)
           /\ outcome.kind = "return" => response = SuccessResponse(outcome.data)


(***************************************************************************)
(* The accept thread is inside handle_client.                              *)
(***************************************************************************)
InSession == spc \in {"loop_check", "recv", "handle", "write"}

(***************************************************************************)
(* C13: at most one session is active at any time.  While a connection is  *)
(* open the accept thread is inside the handle_client call that serves it, *)
(* and as long as that connection stays open no other connection is taken  *)
(* from the listener: a client that connects meanwhile stays queued.       *)
(***************************************************************************)
C13_OneSessionAtATime ==
    [][/\ conn = "open" => InSession
       /\ (conn = "open" /\ conn' = "open") => backlog' >= backlog]_vars

C13_Witness ==
    /\ conn = "open"
    /\ spc = "recv"
    /\ nread > 0
    /\ backlog > 0


(***************************************************************************)
(* C14: when unregister is called while the accept thread waits in accept  *)
(* with no session open, the thread leaves its loop after at most one more *)
(* accept timeout, without reading or serving any command (a connection    *)
(* that arrives meanwhile is closed at the first loop test of              *)
(* handle_client), and the join of unregister finds the thread ended: no   *)
(* warning.                                                                *)
(***************************************************************************)
C14_StopWhileAccepting ==
    stop_in_accept
        => /\ spc \notin {"recv", "handle", "write"}
           /\ hpc = "join" => elapsed <= accept_timeout
           /\ hpc = "idle" => spc = "stopped"
           /\ ~warned


(***************************************************************************)
(* C15: unregister sets is_running to false, then closes the listening     *)
(* socket, then waits for the accept thread: when unregister starts to     *)
(* wait in join, the flag is false and the listening socket is closed.     *)
(***************************************************************************)
C15_ListenerClosedBeforeJoin ==
    [][(hpc = "idle" /\ hpc' = "join") => (~is_running' /\ ~listening')]_vars

(***************************************************************************)
(* C16: unregister always returns: a join that was started ends, whatever  *)
(* the accept thread is doing (binding, waiting in accept, blocked in the  *)
(* recv of a session), and a thread that is still alive when the join ends *)
(* gets the warning, after which unregister returns all the same.  With no *)
(* live thread unregister does not wait at all.                            *)
(***************************************************************************)
C16_UnregisterReturns ==
    /\ [][/\ (hpc = "join" /\ hpc' = "idle") => (warned' = is_alive)
          /\ (hpc = "idle" /\ hpc' = "join") => is_alive]_vars
    /\ (hpc = "join") ~> (hpc = "idle")

C16_Witness ==
    /\ hpc = "idle"
    /\ warned
    /\ ~is_running
    /\ spc = "recv"
    /\ conn = "open"
    /\ peer = "connected"


(***************************************************************************)
(* C17: when register returns, the listening socket is bound and           *)
(* listening, so a connect issued right after it is accepted or queued.    *)
(***************************************************************************)
C17_ListeningWhenRegisterReturns ==
    [][(~registered /\ registered') => listening']_vars

(***************************************************************************)
(* C18: a failed bind is reported to the caller of register: register has  *)
(* not returned normally, leaving is_running true, when the bind of the    *)
(* listening address has failed.                                           *)
(***************************************************************************)
C18_BindFailureSurfaced ==
    bound = "failed" => ~(registered /\ is_running)

(***************************************************************************)
(* C19: the accept thread never blocks for longer than one accept timeout: *)
(* once unregister has waited longer than that, the thread has seen        *)
(* is_running = false and has ended, also when a session with a connected  *)
(* but silent peer was open at the stop.                                   *)
(***************************************************************************)
C19_StopObservedWithinPoll ==
    (hpc = "join" /\ elapsed > accept_timeout) => ~is_alive

(***************************************************************************)
(* C20: while is_running is true, the accept loop of a thread that bound   *)
(* its listener does not end: not after an error of accept, not after a    *)
(* session that ended with an error.                                       *)
(***************************************************************************)
C20_AcceptLoopSurvivesFaults ==
    (is_running /\ bound = "ok") => spc # "stopped"


(***************************************************************************)
(* C21: when the peer disconnects (recv returns b"" or raises              *)
(* ConnectionResetError, sendall raises BrokenPipeError) the session ends  *)
(* inside handle_client: the connection is closed and the accept thread is *)
(* back at the test of its loop with the listener open and is_running      *)
(* untouched, so that with is_running true its next step is an accept,     *)
(* which takes the next client.                                            *)
(***************************************************************************)
C21_DisconnectEndsSessionOnly ==
    [][LET EndedCleanly == /\ conn' = "closed"
                           /\ spc' = "accept_check"
                           /\ listening'
                           /\ is_running' = is_running
       IN  /\ (spc = "recv" /\ inbox = <<>> /\ spc' # "recv") => EndedCleanly
           /\ (spc = "write" /\ spc' # "write" /\ nwritten' = nwritten) => EndedCleanly
           /\ (spc = "accept_check" /\ is_running /\ spc' # "accept_check")
                  => spc' = "accept"]_vars

C21_Witness ==
    /\ conn = "closed"
    /\ peer = "none"
    /\ nread > 0
    /\ is_running
    /\ listening
    /\ spc = "accept"
    /\ backlog > 0


(***************************************************************************)
(* C30: once is_running has been set to false, handle_client hands no      *)
(* further chunk to the dispatch: no step of the session goes on to decode *)
(* and dispatch a chunk while the flag is false.                           *)
(***************************************************************************)
C30_NoDispatchAfterStop ==
    [][(~is_running /\ spc # "handle") => spc' # "handle"]_vars


(***************************************************************************)
(* C26: for a draw_stroke payload with layer_name, color and a points list *)
(* of length n > 0, when Blender provides the layer and its frame, the     *)
(* response is status=success, its data is the message alone, the message  *)
(* reports n points on the named layer, and one stroke was added to the    *)
(* layer.                                                                  *)
(***************************************************************************)
C26_StrokeReportsItsPoints ==
    (/\ Handled
     /\ chunk.kind = "object"
     /\ chunk.command = "draw_stroke"
     /\ StrokeKeys \subseteq RequestPayload.keys
     /\ RequestPayload.points > 0
     /\ outcome.kind = "return")
        => /\ IsSuccessEnvelope(response)
           /\ response.data.keys = {"message"}
           /\ response.data.text = <<"Stroke with ", "n", " points drawn on layer '",
                                     "<layer>", "'">>
           /\ response.data.n = RequestPayload.points
           /\ effects = {"layer", "stroke"}

C26_Witness ==
    /\ Written
    /\ chunk.command = "draw_stroke"
    /\ chunk.has_payload
    /\ chunk.payload.points = MaxPoints
    /\ response.status = "success"
    /\ response.data.n = MaxPoints
    /\ "stroke" \in effects

C23_EnsureConnection ==
    /\ [][\A t \in Callers :
            /\ (pc[t] = "ens_check" /\ pc'[t] # "ens_check")
                  => IF socket_connected /\ blender_socket # NoSocket
                     THEN /\ pc'[t] = "snd_lock"
                          /\ attempt'[t] = 0
                          /\ blender_socket' = blender_socket
                          /\ socket_connected' = socket_connected
                     ELSE pc'[t] = "conn_try"
            /\ pc'[t] = "send" => pc[t] \in {"send", "snd_lock"}
            /\ pc'[t] = "snd_lock" => pc[t] \in {"snd_lock", "ens_check", "conn_lock"}]_vars
    /\ \A t \in Callers : (pc[t] = "ens_check") ~> (pc[t] \in {"snd_lock", "ret"})


(***************************************************************************)
(* C24: disconnect_from_blender leaves no socket handle and the flag       *)
(* cleared, whatever state it is called in, and a second call changes      *)
(* nothing: in every reachable state the values it leaves are (None,       *)
(* False) and are a fixed point of the function, and the step of the       *)
(* module's finally clause leaves exactly these values.                    *)
(***************************************************************************)
C24_DisconnectIdempotent ==
    /\ [](LET d == disconnect_state(blender_socket, socket_connected)
          IN  /\ d = <<NoSocket, FALSE>>
              /\ disconnect_state(d[1], d[2]) = d)
    /\ [][(pc[Main] = "run" /\ pc'[Main] = "exited")
            => /\ blender_socket' = NoSocket
               /\ ~socket_connected'
               /\ blender_socket \notin socks'
               /\ disconnect_state(blender_socket', socket_connected')
                     = <<blender_socket', socket_connected'>>]_vars

C24_Witness ==
    /\ pc[Main] = "exited"
    /\ blender_socket = NoSocket
    /\ ~socket_connected
    /\ \E t \in Callers : pc[t] = "done" /\ result[t].output = "printed text"


(***************************************************************************)
(* C25: at most one client socket is open at any time; a connect attempt   *)
(* opens a socket only when no socket is open, the open socket is the one  *)
(* blender_socket holds, and the disconnect of the finally clause leaves   *)
(* no socket open.                                                         *)
(***************************************************************************)
C25_AtMostOneSocket ==
    /\ [](/\ Cardinality(socks) <= 1
          /\ socks \subseteq {blender_socket})
    /\ [][/\ socks' # socks /\ socks' # {} => socks = {}
          /\ (pc[Main] = "run" /\ pc'[Main] = "exited") => socks' = {}]_vars

C25_Witness ==
    /\ pc[Main] = "exited"
    /\ Cardinality(socks) = 1
    /\ blender_socket \in socks
    /\ \E t \in Callers : pc[t] = "conn_lock"
    /\ \E t \in Callers : pc[t] = "done" /\ result[t].output = "printed text"


(***************************************************************************)
(* C28: execute_blender_command returns the output text of the response    *)
(* when its status is success (the fixed text "SUCCESS: No output          *)
(* returned." when the data carries no output), and otherwise "ERROR: "    *)
(* followed by the error_message of the response, or by "Unknown error."   *)
(* when the response has none; every mapping _send_blender_command returns *)
(* is turned into such a string, the mapping without status included.      *)
(***************************************************************************)
C28_ToolReturnsTextOrError ==
    [][\A t \in Callers :
          (pc[t] = "ret" /\ pc'[t] # "ret")
             => /\ pc'[t] = "done"
                /\ result'[t].status = "returned"
                /\ result[t].status = "success" /\ result[t].output # ""
                      => result'[t].output = result[t].output
                /\ result[t].status = "success" /\ result[t].output = ""
                      => result'[t].output = "SUCCESS: No output returned."
                /\ result[t].status # "success" /\ result[t].error_message # ""
                      => result'[t].output = "ERROR: " \o result[t].error_message
                /\ result[t].status # "success" /\ result[t].error_message = ""
                      => result'[t].output = "ERROR: Unknown error."]_vars

C28_Witness ==
    /\ \E t \in Callers :
          pc[t] = "done" /\ result[t].output = "ERROR: Unknown error."
    /\ \E t \in Callers :
          pc[t] = "done" /\ result[t].output = "printed text"


(***************************************************************************)
(* C29: a thread in _send_blender_command holds socket_lock from the check *)
(* of ensure_connection until its response is received, so between the     *)
(* check and the send the socket handle is not changed by a disconnect or  *)
(* a connect and no other thread sends on it.                              *)
(***************************************************************************)
C29_LockHeldCheckToReceive ==
    /\ [](\A t \in Callers :
            pc[t] \in {"ens_check", "snd_lock", "send", "recv"} => socket_lock = t)
    /\ [][\A t \in Callers :
            pc[t] = "snd_lock"
               => /\ blender_socket' = blender_socket
                  /\ \A u \in Callers \ {t} :
                        ~(pc[u] = "send" /\ pc'[u] # "send")]_vars


(***************************************************************************)
(* Further claims about render/addon.py.                                   *)
(***************************************************************************)
(***************************************************************************)
(* C31: a session goes through read, handle (decode, dispatch, encode),    *)
(* write, and back to the loop test, in this order: a read happens only    *)
(* when every chunk read before has had its response written, each chunk   *)
(* read gets the response computed for that chunk, one write per chunk,    *)
(* and whenever the session is back at the loop test or in recv the        *)
(* number of responses written equals the number of non-empty chunks read. *)
(***************************************************************************)
C31_OneResponsePerChunkInOrder ==
    /\ [](/\ spc \in {"loop_check", "recv"} => nwritten = nread
          /\ spc \in {"handle", "write"} => nread = nwritten + 1
          /\ spc = "write"
                => \E bpy \in {"ok", "fault"} :
                      response = except_clauses(try_body(chunk, bpy).end,
                                                try_body(chunk, bpy).out).response)
    /\ [][/\ spc' = "recv" => spc \in {"recv", "loop_check"}
          /\ spc' = "handle" => spc \in {"handle", "recv"}
          /\ spc' = "write" => spc \in {"write", "handle"}
          /\ (spc = "recv" /\ spc' = "handle")
                => nread' = nread + 1 /\ chunk' = Head(inbox) /\ nwritten' = nwritten
          /\ (spc = "write" /\ spc' = "loop_check")
                => nwritten' = nwritten + 1 /\ nread' = nread /\ chunk' = chunk
          /\ (spc = "write" /\ spc' # "write") => nwritten' \in {nwritten, nwritten + 1}
          /\ spc \in {"loop_check", "recv", "handle"}
                => nwritten' = nwritten]_vars

C31_Witness ==
    /\ spc = "recv"
    /\ nread = 2
    /\ nwritten = 2
    /\ prevKind = "badjson"
    /\ chunk.kind = "object"


(***************************************************************************)
(* C34: a request object without a "payload" field is handled exactly as   *)
(* the same command with the payload {}: the handler is called;            *)
(* get_blender_info answers success; get_scene_info, get_blender_context   *)
(* and render_image, which require no key, answer success unless Blender   *)
(* itself faults; draw_stroke, draw_circle and execute_code answer with    *)
(* their validation error and do nothing to Blender.                       *)
(***************************************************************************)
C34_MissingPayloadIsEmptyMapping ==
    (spc = "write" /\ chunk.kind = "object" /\ ~chunk.has_payload
       /\ chunk.command \in COMMAND_MAP)
    => /\ invoked = chunk.command
       /\ \E bpy \in {"ok", "fault"} :
             LET b == try_body([chunk EXCEPT !.has_payload = TRUE,
                                             !.payload = EmptyPayload], bpy)
             IN  /\ outcome = b.out
                 /\ response = except_clauses(b.end, b.out).response
       /\ chunk.command = "get_blender_info"
             => /\ IsSuccessEnvelope(response)
                /\ response.data.keys = {"blender_version"}
       /\ chunk.command \in {"get_scene_info", "get_blender_context", "render_image"}
             => \/ IsSuccessEnvelope(response)
                \/ /\ IsErrorEnvelope(response)
                   /\ response.error_message
                         \in {<<"str(e)">>, <<"Blender rendering failed: ", "str(e)">>}
       /\ chunk.command \in {"draw_stroke", "draw_circle", "execute_code"}
             => /\ IsErrorEnvelope(response)
                /\ response.error_message[1] = "Payload for '"
                /\ response.error_message[2] = chunk.command
                /\ effects = {}

C34_Witness ==
    /\ spc = "write"
    /\ chunk.kind = "object"
    /\ ~chunk.has_payload
    /\ chunk.command = "get_blender_info"
    /\ IsSuccessEnvelope(response)
    /\ prevKind = "object"


C32_StateChangedUnderLock ==
    [][(blender_socket' # blender_socket \/ socket_connected' # socket_connected)
          => \/ \E t \in Procs :
                   /\ pc[t] = "conn_try" /\ pc'[t] # "conn_try"
                   /\ socket_lock = t
             \/ \E t \in Procs :
                   /\ pc[t] = "conn_lock" /\ pc'[t] # "conn_lock"
                   /\ CanAcquire(t)
             \/ \E t \in Callers :
                   /\ pc[t] = "exc" /\ pc'[t] # "exc"
                   /\ CanAcquire(t)
             \/ /\ pc[Main] = "run" /\ pc'[Main] = "exited"
                /\ CanAcquire(Main)]_vars


(***************************************************************************)
(* C36: when a _send_blender_command call returns a mapping it read from   *)
(* the socket, that mapping is the addon's answer to the request this call *)
(* sent, never the answer to the request of an earlier call.               *)
(***************************************************************************)
C36_ResponseAnswersOwnRequest ==
    \A t \in Callers :
        (pc[t] = "ret" /\ result[t].re # 0) => result[t].re = cur[t]


(***************************************************************************)
(* C37: in every state with socket_lock free and no thread inside          *)
(* connect_to_blender, socket_connected is true exactly when               *)
(* blender_socket holds a socket; so get_connection_status, which reads    *)
(* both under the lock, answers CONNECTED exactly in the states where a    *)
(* socket is held, and exactly in those where the flag is set.             *)
(***************************************************************************)
C37_FlagMatchesHandle ==
    /\ []((socket_lock = Free
            /\ \A t \in Procs :
                  pc[t] \notin {"conn_try", "conn_sleep", "conn_lock", "conn_failed"})
          => /\ socket_connected <=> blender_socket # NoSocket
             /\ connection_status(blender_socket, socket_connected) = "CONNECTED"
                   <=> blender_socket # NoSocket
             /\ connection_status(blender_socket, socket_connected) = "CONNECTED"
                   <=> socket_connected)
    /\ [][\A t \in Callers :
            (pc[t] = "idle" /\ pc'[t] = "done")
               => /\ result'[t].output = "CONNECTED" <=> socket_connected
                  /\ result'[t].output = "CONNECTED" <=> blender_socket # NoSocket
                  /\ result'[t].output \in {"CONNECTED", "DISCONNECTED"}]_vars

C37_Witness ==
    /\ failedOn
    /\ link = "down"
    /\ socket_lock = Free
    /\ \E t \in Callers : pc[t] = "done" /\ result[t].output = "CONNECTED"
    /\ \E t \in Callers : pc[t] = "done" /\ result[t].output = "ERROR: str(e)"


(***************************************************************************)
(* Further claims about render/addon.py (continued).                       *)
(***************************************************************************)
(***************************************************************************)
(* C33: at most one accept thread (a thread running socket_server_thread)  *)
(* is alive at any time, whatever the order of the register and            *)
(* unregister calls, a register after an unregister whose join timed out   *)
(* included.                                                               *)
(***************************************************************************)
C33_OneAcceptThread ==
    ~(spc \notin {"none", "stopped"} /\ opc # "none")

(***************************************************************************)
(* C38: sys.stdout is the original stream in every state between two       *)
(* handler calls, and each execute_code call leaves sys.stdout as it found *)
(* it, whether the executed code returned, raised an Exception, raised     *)
(* json.JSONDecodeError or called sys.exit, or was never run because the   *)
(* payload had no code.                                                    *)
(***************************************************************************)
C38_StdoutRestored ==
    /\ [](sys_stdout = "original")
    /\ [][(spc = "handle" /\ spc' # "handle" /\ invoked' = "execute_code")
            => /\ sys_stdout' = sys_stdout
               /\ outcome'.kind \in {"return", "raise", "raise_decode", "exit"}]_vars

C38_Witness ==
    /\ sys_stdout = "original"
    /\ spc = "write"
    /\ invoked = "execute_code"
    /\ outcome.kind = "exit"
    /\ "exec" \in effects
    /\ nread = 2
    /\ prevKind = "object"

=============================================================================
